---- MODULE Spec2Model ----
(***************************************************************************)
(* envanter 1.3.0: EnvironmentParser reads os.environ and converts the raw *)
(* text of a variable (src/src/envanter/__init__.py).                      *)
(*                                                                         *)
(* A text is a sequence of one-character strings, so that splitting,       *)
(* lower-casing and literal parsing are computed character by character.   *)
(* A Python value is a record [tag, num, exp, txt, items]; an outcome of a *)
(* call is a record [kind, val, msg] where kind is "return" or the name of *)
(* the exception that reached the caller.                                  *)
(***************************************************************************)
EXTENDS Integers, Sequences, FiniteSets, TLC

VARIABLES
    environ,    \* os.environ: name -> text, or Absent
    gen,        \* what the caller's one-shot iterator object still yields
    genSrc,     \* the sequence that iterator object was created over
    call,       \* the arguments of the latest accessor call, NoCall when the
                \* environment or the iterator changed since
    passed,     \* what the choices argument yielded when that call began
    outcome,    \* what the latest call returned or raised
    applied,    \* the texts a conversion was applied to in that call
    joined,     \* the elements and the delimiter the caller joined to make
                \* the value of the variable, when it made it that way
    again,      \* the latest call repeated the call before it: the same
                \* arguments, and nothing else happened in between
    earlier,    \* the environment as the latest call found it; it stays
                \* when the environment changes afterwards
    changed     \* the latest call found another environment than the call
                \* before it did

vars ==
    <<environ, gen, genSrc, call, passed, outcome, applied, joined, again,
      earlier, changed>>

----------------------------------------------------------------------------
(* Bounds of the model *)

\* longest text of the exhaustive text sets
MaxLen == 3
\* most elements of a joined sequence
MaxElems == 3

----------------------------------------------------------------------------
(* Texts *)

RECURSIVE SeqsUpTo(_, _)
SeqsUpTo(S, n) ==
    IF n = 0 THEN {<<>>}
    ELSE LET shorter == SeqsUpTo(S, n - 1)
         IN  shorter \cup {Append(s, c) : s \in shorter, c \in S}

\* t[i..] starts with p
StartsAt(t, i, p) ==
    /\ i + Len(p) - 1 <= Len(t)
    /\ \A k \in 1..Len(p) : t[i + k - 1] = p[k]

\* Python's  p in t  for two str objects
IsSubstring(p, t) == \E i \in 1..(Len(t) + 1) : StartsAt(t, i, p)

\* Python's  x in seq  for a list or a tuple
Contains(seq, x) == \E i \in 1..Len(seq) : seq[i] = x

Digits == {"0", "1"}
DigitVal(c) == IF c = "1" THEN 1 ELSE 0
IsSpace(c) == c = " "

\* str.lower on the characters of the model's alphabet
LowerChar(c) ==
    CASE c = "T" -> "t" [] c = "R" -> "r" [] c = "U" -> "u" [] c = "E" -> "e"
      [] c = "F" -> "f" [] c = "A" -> "a" [] c = "L" -> "l" [] c = "S" -> "s"
      [] c = "N" -> "n" [] c = "O" -> "o"
      [] OTHER -> c

Lower(t) == [i \in 1..Len(t) |-> LowerChar(t[i])]

RECURSIVE LStrip(_)
LStrip(t) == IF t # <<>> /\ IsSpace(Head(t)) THEN LStrip(Tail(t)) ELSE t

RECURSIVE RStrip(_)
RStrip(t) ==
    IF t # <<>> /\ IsSpace(t[Len(t)]) THEN RStrip(SubSeq(t, 1, Len(t) - 1)) ELSE t

Strip(t) == RStrip(LStrip(t))

----------------------------------------------------------------------------
(* Python values *)

Val(tag, num, exp, txt, items) ==
    [tag |-> tag, num |-> num, exp |-> exp, txt |-> txt, items |-> items]

notset == Val("notset", 0, 0, <<>>, <<>>)
PyNone == Val("None", 0, 0, <<>>, <<>>)
PyBool(b) == Val("bool", IF b THEN 1 ELSE 0, 0, <<>>, <<>>)
PyInt(n) == Val("int", n, 0, <<>>, <<>>)
PyStr(t) == Val("str", 0, 0, t, <<>>)
PyList(vs) == Val("list", 0, 0, <<>>, vs)
NoValue == Val("novalue", 0, 0, <<>>, <<>>)

\* m * 10^-e with the trailing zeros of the fraction removed
RECURSIVE Normal(_, _, _)
Normal(tag, m, e) ==
    IF m = 0 THEN Val(tag, 0, 0, <<>>, <<>>)
    ELSE IF e > 0 /\ m % 10 = 0 THEN Normal(tag, m \div 10, e - 1)
    ELSE Val(tag, m, e, <<>>, <<>>)

PyFloat(m, e) == Normal("float", m, e)
PyDecimal(m, e) == Normal("Decimal", m, e)

----------------------------------------------------------------------------
(* Outcomes *)

NoMsg == [value |-> <<>>, expected |-> <<>>]
Return(v) == [kind |-> "return", val |-> v, msg |-> NoMsg]
Raise(exc) == [kind |-> exc, val |-> NoValue, msg |-> NoMsg]
RaiseMsg(exc, value, expected) ==
    [kind |-> exc, val |-> NoValue,
     msg |-> [value |-> value, expected |-> expected]]
NoOutcome == [kind |-> "none", val |-> NoValue, msg |-> NoMsg]

----------------------------------------------------------------------------
(* The conversions of the standard library, on the model's alphabet *)

AllDigits(s) == s # <<>> /\ \A i \in 1..Len(s) : s[i] \in Digits
DigitsOrEmpty(s) == \A i \in 1..Len(s) : s[i] \in Digits

RECURSIVE DecVal(_)
DecVal(s) ==
    IF s = <<>> THEN 0
    ELSE DecVal(SubSeq(s, 1, Len(s) - 1)) * 10 + DigitVal(s[Len(s)])

IsNeg(s) == s # <<>> /\ s[1] = "-"
Unsigned(s) == IF IsNeg(s) THEN Tail(s) ELSE s
Signed(s, n) == IF IsNeg(s) THEN 0 - n ELSE n

Dots(s) == {i \in 1..Len(s) : s[i] = "."}
IntPart(s) ==
    IF Dots(s) = {} THEN s ELSE SubSeq(s, 1, (CHOOSE i \in Dots(s) : TRUE) - 1)
FracPart(s) ==
    IF Dots(s) = {} THEN <<>>
    ELSE SubSeq(s, (CHOOSE i \in Dots(s) : TRUE) + 1, Len(s))

\* int(text): surrounding whitespace, an optional sign, decimal digits
IntValid(t) == AllDigits(Unsigned(Strip(t)))
PyIntOf(t) ==
    IF IntValid(t)
    THEN Return(PyInt(Signed(Strip(t), DecVal(Unsigned(Strip(t))))))
    ELSE Raise("ValueError")

\* the decimal point syntax float() and Decimal() share: digits with at most
\* one point and at least one digit
PointValid(t) ==
    LET s == Unsigned(Strip(t))
    IN  /\ Cardinality(Dots(s)) <= 1
        /\ DigitsOrEmpty(IntPart(s))
        /\ DigitsOrEmpty(FracPart(s))
        /\ Len(IntPart(s)) + Len(FracPart(s)) >= 1
PointMantissa(t) ==
    LET s == Unsigned(Strip(t))
    IN  Signed(Strip(t), DecVal(IntPart(s) \o FracPart(s)))
PointExp(t) == Len(FracPart(Unsigned(Strip(t))))

\* float(text)
PyFloatOf(t) ==
    IF PointValid(t)
    THEN Return(PyFloat(PointMantissa(t), PointExp(t)))
    ELSE Raise("ValueError")

\* decimal.Decimal(text): the failure is decimal.InvalidOperation
PyDecimalOf(t) ==
    IF PointValid(t)
    THEN Return(PyDecimal(PointMantissa(t), PointExp(t)))
    ELSE Raise("InvalidOperation")

\* json.loads(text): a JSON number has no leading zero and a fraction has
\* digits; true, false and null are the literals
JsonNumberValid(s) ==
    LET u == Unsigned(s)
    IN  /\ Cardinality(Dots(u)) <= 1
        /\ AllDigits(IntPart(u))
        /\ (Len(IntPart(u)) = 1 \/ IntPart(u)[1] # "0")
        /\ (Dots(u) # {} => AllDigits(FracPart(u)))
PyJsonOf(t) ==
    LET s == Strip(t)
    IN  IF s = <<"t", "r", "u", "e">> THEN Return(PyBool(TRUE))
        ELSE IF s = <<"f", "a", "l", "s", "e">> THEN Return(PyBool(FALSE))
        ELSE IF s = <<"n", "u", "l", "l">> THEN Return(PyNone)
        ELSE IF JsonNumberValid(s)
        THEN IF Dots(s) = {}
             THEN Return(PyInt(Signed(s, DecVal(Unsigned(s)))))
             ELSE Return(PyFloat(PointMantissa(s), PointExp(s)))
        ELSE Raise("JSONDecodeError")

\* the first index at which d occurs in t, 0 when it does not
Find(t, d) ==
    IF \E i \in 1..Len(t) : StartsAt(t, i, d)
    THEN CHOOSE i \in 1..Len(t) :
            /\ StartsAt(t, i, d)
            /\ \A j \in 1..(i - 1) : ~StartsAt(t, j, d)
    ELSE 0

\* a split that drops the empty pieces
RECURSIVE SplitDropEmpty(_, _)
SplitDropEmpty(t, d) ==
    LET i == Find(t, d)
    IN  IF i = 0 THEN IF t = <<>> THEN <<>> ELSE <<t>>
        ELSE (IF i = 1 THEN <<>> ELSE <<SubSeq(t, 1, i - 1)>>)
             \o SplitDropEmpty(SubSeq(t, i + Len(d), Len(t)), d)

\* a split that stops after the first occurrence
SplitOnce(t, d) ==
    IF Find(t, d) = 0 THEN <<t>>
    ELSE <<SubSeq(t, 1, Find(t, d) - 1),
           SubSeq(t, Find(t, d) + Len(d), Len(t))>>

\* str.split(d) for a non-empty d: left to right, empty pieces kept
RECURSIVE Split(_, _)
Split(t, d) ==
    LET i == Find(t, d)
    IN  IF i = 0 THEN <<t>>
        ELSE <<SubSeq(t, 1, i - 1)>> \o Split(SubSeq(t, i + Len(d), Len(t)), d)

\* the conversions a caller passes as parser=
\*   "len"      : the builtin len, which accepts every text
\*   "int"      : the builtin int
\*   "keyerror" : a function that raises KeyError on every text
\*   "str", "float", "Decimal", "json.loads" : the library conversions
\*   "getitem"  : {"1": 1}.__getitem__, which raises KeyError(text) on every
\*                text but "1"
Call(parser, t) ==
    CASE parser = "len" -> Return(PyInt(Len(t)))
      [] parser = "int" -> PyIntOf(t)
      [] parser = "keyerror" -> Raise("KeyError")
      [] parser = "str" -> Return(PyStr(t))
      [] parser = "float" -> PyFloatOf(t)
      [] parser = "Decimal" -> PyDecimalOf(t)
      [] parser = "json.loads" -> PyJsonOf(t)
      [] parser = "getitem" ->
            IF t = <<"1">> THEN Return(PyInt(1))
            ELSE RaiseMsg("KeyError", t, <<>>)

----------------------------------------------------------------------------
(* EnvironmentParser *)

\* the argument an accessor takes when the caller passes no parser=
NoParser == "notset"

\* what an accessor did: the outcome and the texts a conversion was applied to
Eff(out, app) == [out |-> out, applied |-> app]

\* os.environ[name] raises KeyError exactly when this is false
Present(env, name) == name \in DOMAIN env

\* not default: the truth value of the default instead of its identity
IsFalsy(default) ==
    \/ default.tag \in {"notset", "None"}
    \/ default.tag \in {"bool", "int", "float", "Decimal"} /\ default.num = 0
    \/ default.tag = "str" /\ default.txt = <<>>
    \/ default.tag = "list" /\ default.items = <<>>

\* default is notset
IsNotSet(default) == default.tag = "notset"

\* except KeyError:  if default is notset: raise;  return default
Missing(default) ==
    IF IsNotSet(default) THEN Raise("KeyError") ELSE Return(default)

\* except Exception: a handler that takes every failure for a missing variable
ExceptException(res, default) ==
    IF res.kind # "return" THEN Missing(default) ELSE res

\* try: <body>  except KeyError: ...   around a body that ended as res
ExceptKeyError(res, default) ==
    IF res.kind = "KeyError" THEN Missing(default) ELSE res

\* a parse that prefers a supplied default to the variable
EnvParseDefaultFirst(env, name, default, parser) ==
    IF ~IsNotSet(default) THEN Eff(Return(default), <<>>)
    ELSE IF ~Present(env, name) THEN Eff(Raise("KeyError"), <<>>)
    ELSE Eff(Call(parser, env[name]), <<env[name]>>)

\* a parse that calls parser inside the try
EnvParseInTry(env, name, default, parser) ==
    IF ~Present(env, name)
    THEN Eff(ExceptKeyError(Raise("KeyError"), default), <<>>)
    ELSE Eff(ExceptKeyError(Call(parser, env[name]), default), <<env[name]>>)

\* parse(name, default, parser=parser): the lookup is inside the try, the
\* call of parser is after it
EnvParse(env, name, default, parser) ==
    IF ~Present(env, name)
    THEN Eff(ExceptKeyError(Raise("KeyError"), default), <<>>)
    ELSE Eff(Call(parser, env[name]), <<env[name]>>)

\* str(name, default)
EnvStr(env, name, default) ==
    IF ~Present(env, name)
    THEN Eff(ExceptKeyError(Raise("KeyError"), default), <<>>)
    ELSE Eff(ExceptKeyError(Return(PyStr(env[name])), default), <<>>)

\* int, float, decimal, json: try: return conv(os.environ[name]), with the
\* conversion inside the try
EnvInt(env, name, default) ==
    IF ~Present(env, name)
    THEN Eff(ExceptKeyError(Raise("KeyError"), default), <<>>)
    ELSE Eff(ExceptKeyError(PyIntOf(env[name]), default), <<env[name]>>)

EnvFloat(env, name, default) ==
    IF ~Present(env, name)
    THEN Eff(ExceptKeyError(Raise("KeyError"), default), <<>>)
    ELSE Eff(ExceptKeyError(PyFloatOf(env[name]), default), <<env[name]>>)

\* a decimal that converts with float
EnvDecimalAsFloat(env, name, default) ==
    IF ~Present(env, name)
    THEN Eff(ExceptKeyError(Raise("KeyError"), default), <<>>)
    ELSE Eff(ExceptKeyError(PyFloatOf(env[name]), default), <<env[name]>>)

EnvDecimal(env, name, default) ==
    IF ~Present(env, name)
    THEN Eff(ExceptKeyError(Raise("KeyError"), default), <<>>)
    ELSE Eff(ExceptKeyError(PyDecimalOf(env[name]), default), <<env[name]>>)

EnvJson(env, name, default) ==
    IF ~Present(env, name)
    THEN Eff(ExceptKeyError(Raise("KeyError"), default), <<>>)
    ELSE Eff(ExceptKeyError(PyJsonOf(env[name]), default), <<env[name]>>)

truthy == << <<"t", "r", "u", "e">>, <<"1">> >>
falsy == << <<"f", "a", "l", "s", "e">>, <<"0">> >>
allowed == truthy \o falsy

\* a bool that compares the text as written
EnvBoolCaseSensitive(env, name, default) ==
    IF ~Present(env, name)
    THEN Eff(Missing(default), <<>>)
    ELSE LET value == env[name]
         IN  IF ~Contains(allowed, value)
             THEN Eff(RaiseMsg("ValueError", value, truthy \o falsy), <<>>)
             ELSE Eff(Return(PyBool(Contains(truthy, value))), <<>>)

\* bool(name, default)
EnvBool(env, name, default) ==
    IF ~Present(env, name)
    THEN Eff(ExceptKeyError(Raise("KeyError"), default), <<>>)
    ELSE LET value == Lower(env[name])
         IN  IF ~Contains(allowed, value)
             THEN Eff(RaiseMsg("ValueError", value, truthy \o falsy), <<>>)
             ELSE Eff(Return(PyBool(Contains(truthy, value))), <<>>)

\* value.split(delimiter): an empty separator is a ValueError
PySplit(value, delimiter) ==
    IF delimiter = <<>> THEN Raise("ValueError")
    ELSE LET pieces == Split(value, delimiter)
         IN  Return(PyList([i \in 1..Len(pieces) |-> PyStr(pieces[i])]))

\* the index of the first item parser fails on, 0 when it accepts them all
FirstFailure(parser, items) ==
    IF \E i \in 1..Len(items) : Call(parser, items[i]).kind # "return"
    THEN CHOOSE i \in 1..Len(items) :
            /\ Call(parser, items[i]).kind # "return"
            /\ \A j \in 1..(i - 1) : Call(parser, items[j]).kind = "return"
    ELSE 0

\* [parser(item) for item in items]
Comprehension(parser, items) ==
    LET f == FirstFailure(parser, items)
    IN  IF f = 0
        THEN Eff(Return(PyList([i \in 1..Len(items) |->
                                   Call(parser, items[i]).val])), items)
        ELSE Eff(Call(parser, items[f]), SubSeq(items, 1, f))

\* list(name, default, delimiter=delimiter, parser=parser)
EnvList(env, name, default, delimiter, parser) ==
    IF ~Present(env, name)
    THEN Eff(ExceptKeyError(Raise("KeyError"), default), <<>>)
    ELSE LET value == env[name]
         IN  IF parser = NoParser THEN Eff(PySplit(value, delimiter), <<>>)
             ELSE IF delimiter = <<>> THEN Eff(PySplit(value, delimiter), <<>>)
             ELSE Comprehension(parser, Split(value, delimiter))

----------------------------------------------------------------------------
(* The choices argument of choice: a list, a str or a one-shot iterator.    *)
(* items is what iterating the object from its start yields.                *)

Choices(kind, items) == [kind |-> kind, items |-> items]
NoChoices == Choices("none", <<>>)

RECURSIVE Concat(_)
Concat(ts) == IF ts = <<>> THEN <<>> ELSE Head(ts) \o Concat(Tail(ts))

\* what iterating choices yields now; it is what the iterator has left
Yields(choices, it) == IF choices.kind = "iter" THEN it ELSE choices.items

\* the index of the first element of seq equal to x, 0 when there is none
IndexOf(seq, x) ==
    IF Contains(seq, x)
    THEN CHOOSE i \in 1..Len(seq) :
            seq[i] = x /\ \A j \in 1..(i - 1) : seq[j] # x
    ELSE 0

\* value in choices: list.__contains__ compares the elements, str.__contains__
\* searches a substring, an iterator is consumed up to the first equal element
IsMember(value, choices, it) ==
    CASE choices.kind = "str" -> IsSubstring(value, Concat(choices.items))
      [] OTHER -> Contains(Yields(choices, it), value)

\* what the iterator has left after  value in choices
AfterIn(value, choices, it) ==
    IF choices.kind # "iter" THEN it
    ELSE IF IndexOf(it, value) = 0 THEN <<>>
    ELSE SubSeq(it, IndexOf(it, value) + 1, Len(it))

\* tuple(choices), evaluated after  value in choices
TupleOf(value, choices, it) == Yields(choices, AfterIn(value, choices, it))

\* a choice that validates the default of an absent variable like a value
EnvChoiceChecksDefault(env, name, default, choices, parser, it) ==
    IF ~Present(env, name)
    THEN IF IsNotSet(default) THEN Eff(Raise("KeyError"), <<>>)
         ELSE IF default.tag = "str" /\ IsMember(default.txt, choices, it)
         THEN Eff(Return(default), <<>>)
         ELSE Eff(RaiseMsg("ValueError", default.txt,
                           TupleOf(default.txt, choices, it)), <<>>)
    ELSE LET value == env[name]
         IN  IF ~IsMember(value, choices, it)
             THEN Eff(RaiseMsg("ValueError", value,
                               TupleOf(value, choices, it)), <<>>)
             ELSE IF parser = NoParser THEN Eff(Return(PyStr(value)), <<>>)
             ELSE Eff(Call(parser, value), <<value>>)

\* choice(name, default, choices=choices, parser=parser)
EnvChoice(env, name, default, choices, parser, it) ==
    IF ~Present(env, name)
    THEN Eff(ExceptKeyError(Raise("KeyError"), default), <<>>)
    ELSE LET value == env[name]
         IN  IF ~IsMember(value, choices, it)
             THEN Eff(RaiseMsg("ValueError", value,
                               TupleOf(value, choices, it)), <<>>)
             ELSE IF parser = NoParser THEN Eff(Return(PyStr(value)), <<>>)
             ELSE Eff(Call(parser, value), <<value>>)

\* what the caller's iterator has left after choice(...)
ChoiceLeaves(env, name, choices, it) ==
    IF ~Present(env, name) THEN it ELSE AfterIn(env[name], choices, it)

----------------------------------------------------------------------------
(* The state machine: the caller changes the environment, creates an        *)
(* iterator to pass as choices, and calls the accessors of env.            *)

Args(fn, name, default, parser, delimiter, choices) ==
    [fn |-> fn, name |-> name, default |-> default, parser |-> parser,
     delimiter |-> delimiter, choices |-> choices]

NoCall == Args("none", "", notset, NoParser, <<>>, NoChoices)

NoEnviron == [n \in {} |-> <<>>]

\* d.join(elems)
RECURSIVE Join(_, _)
Join(elems, d) ==
    IF elems = <<>> THEN <<>>
    ELSE IF Len(elems) = 1 THEN elems[1]
    ELSE elems[1] \o d \o Join(Tail(elems), d)

Joined(elems, d) == [made |-> TRUE, elems |-> elems, d |-> d]
NoJoin == [made |-> FALSE, elems |-> <<>>, d |-> <<>>]

\* what an accessor call found in os.environ
Seen(env) == [made |-> TRUE, env |-> env]
NoEarlier == [made |-> FALSE, env |-> NoEnviron]

Init ==
    /\ environ = NoEnviron
    /\ gen = <<>>
    /\ genSrc = <<>>
    /\ call = NoCall
    /\ passed = <<>>
    /\ outcome = NoOutcome
    /\ applied = <<>>
    /\ joined = NoJoin
    /\ again = FALSE
    /\ earlier = NoEarlier
    /\ changed = FALSE

\* the latest call is no longer the latest thing that happened
Forget ==
    /\ call' = NoCall
    /\ passed' = <<>>
    /\ outcome' = NoOutcome
    /\ applied' = <<>>
    /\ again' = FALSE
    /\ changed' = FALSE
    /\ UNCHANGED earlier

\* os.environ[name] = text
Setenv(name, text) ==
    /\ environ' = [n \in DOMAIN environ \cup {name} |->
                      IF n = name THEN text ELSE environ[n]]
    /\ Forget
    /\ joined' = NoJoin
    /\ UNCHANGED <<gen, genSrc>>

\* del os.environ[name]
Unsetenv(name) ==
    /\ name \in DOMAIN environ
    /\ environ' = [n \in DOMAIN environ \ {name} |-> environ[n]]
    /\ Forget
    /\ joined' = NoJoin
    /\ UNCHANGED <<gen, genSrc>>

\* it = iter(items): a new one-shot iterator object
NewIter(items) ==
    /\ gen' = items
    /\ genSrc' = items
    /\ Forget
    /\ UNCHANGED <<environ, joined>>

\* the caller sees what the call did
Observe(args, eff) ==
    LET e == eff
    IN  /\ call' = args
        /\ outcome' = e.out
        /\ applied' = e.applied
        /\ again' = (call = args)
        /\ earlier' = Seen(environ)
        /\ changed' = (earlier.made /\ earlier.env # environ)

CallParse(name, default, parser) ==
    /\ Observe(Args("parse", name, default, parser, <<>>, NoChoices),
               EnvParse(environ, name, default, parser))
    /\ passed' = <<>>
    /\ UNCHANGED <<environ, gen, genSrc, joined>>

\* a str that takes the variable out of the environment: os.environ.pop(name)
CallStrPops(name, default) ==
    /\ Observe(Args("str", name, default, NoParser, <<>>, NoChoices),
               EnvStr(environ, name, default))
    /\ passed' = <<>>
    /\ environ' = [n \in DOMAIN environ \ {name} |-> environ[n]]
    /\ UNCHANGED <<gen, genSrc, joined>>

CallStr(name, default) ==
    /\ Observe(Args("str", name, default, NoParser, <<>>, NoChoices),
               EnvStr(environ, name, default))
    /\ passed' = <<>>
    /\ UNCHANGED <<environ, gen, genSrc, joined>>

\* what a cache filled by the call before would hold
Cached == IF earlier.made THEN earlier.env ELSE environ

\* an int that reads the variable once and keeps what it read
CallIntCached(name, default) ==
    /\ Observe(Args("int", name, default, NoParser, <<>>, NoChoices),
               EnvInt(Cached, name, default))
    /\ passed' = <<>>
    /\ UNCHANGED <<environ, gen, genSrc, joined>>

CallInt(name, default) ==
    /\ Observe(Args("int", name, default, NoParser, <<>>, NoChoices),
               EnvInt(environ, name, default))
    /\ passed' = <<>>
    /\ UNCHANGED <<environ, gen, genSrc, joined>>

CallFloat(name, default) ==
    /\ Observe(Args("float", name, default, NoParser, <<>>, NoChoices),
               EnvFloat(environ, name, default))
    /\ passed' = <<>>
    /\ UNCHANGED <<environ, gen, genSrc, joined>>

CallDecimal(name, default) ==
    /\ Observe(Args("decimal", name, default, NoParser, <<>>, NoChoices),
               EnvDecimal(environ, name, default))
    /\ passed' = <<>>
    /\ UNCHANGED <<environ, gen, genSrc, joined>>

CallJson(name, default) ==
    /\ Observe(Args("json", name, default, NoParser, <<>>, NoChoices),
               EnvJson(environ, name, default))
    /\ passed' = <<>>
    /\ UNCHANGED <<environ, gen, genSrc, joined>>

CallBool(name, default) ==
    /\ Observe(Args("bool", name, default, NoParser, <<>>, NoChoices),
               EnvBool(environ, name, default))
    /\ passed' = <<>>
    /\ UNCHANGED <<environ, gen, genSrc, joined>>

CallList(name, default, delimiter, parser) ==
    /\ Observe(Args("list", name, default, parser, delimiter, NoChoices),
               EnvList(environ, name, default, delimiter, parser))
    /\ passed' = <<>>
    /\ UNCHANGED <<environ, gen, genSrc, joined>>

\* choices is a list, a str, or ("iter") the caller's iterator object
CallChoice(name, default, choices, parser) ==
    /\ choices.kind = "iter" => choices.items = genSrc
    /\ Observe(Args("choice", name, default, parser, <<>>, choices),
               EnvChoice(environ, name, default, choices, parser, gen))
    /\ passed' = Yields(choices, gen)
    /\ gen' = ChoiceLeaves(environ, name, choices, gen)
    /\ UNCHANGED <<environ, genSrc, joined>>

----------------------------------------------------------------------------
(* Inputs *)

Names == {"VAR"}

\* the defaults a caller supplies, and notset for a call without one
Supplied ==
    {PyNone, PyBool(FALSE), PyInt(0), PyStr(<<>>), PyList(<<>>), PyInt(10)}
Defaults == {notset} \cup Supplied

Texts ==
    { <<>>, <<"1">>, <<"t", "r", "u", "e">>, <<"T", "r", "u", "e">>, <<"a">>,
      <<"a", "b">>, <<"1", ",", "0">>, <<"1", ",", "a">>, <<"0", "1">>,
      <<"1", ".">> }

Parsers == {"len", "int"}
Delimiters == {<<",">>, <<>>}
IterSeqs == {<<<<"a">>, <<"1">>>>, <<<<"1">>, <<"a">>, <<"a", "b">>>>}
ChoiceArgs ==
    { Choices("list", <<<<"a">>, <<"1">>>>),
      Choices("str", <<<<"a">>, <<"b">>, <<"c">>>>) }
    \cup {Choices("iter", s) : s \in IterSeqs}

Next ==
    \/ \E n \in Names, t \in Texts : Setenv(n, t)
    \/ \E n \in Names : Unsetenv(n)
    \/ \E s \in IterSeqs : NewIter(s)
    \/ \E n \in Names, d \in Defaults, p \in Parsers : CallParse(n, d, p)
    \/ \E n \in Names, d \in Defaults : CallStr(n, d)
    \/ \E n \in Names, d \in Defaults : CallInt(n, d)
    \/ \E n \in Names, d \in Defaults : CallFloat(n, d)
    \/ \E n \in Names, d \in Defaults : CallDecimal(n, d)
    \/ \E n \in Names, d \in Defaults : CallJson(n, d)
    \/ \E n \in Names, d \in Defaults : CallBool(n, d)
    \/ \E n \in Names, d \in Defaults, dl \in Delimiters,
          p \in Parsers \cup {NoParser} : CallList(n, d, dl, p)
    \/ \E n \in Names, d \in Defaults, c \in ChoiceArgs,
          p \in Parsers \cup {NoParser} : CallChoice(n, d, c, p)

Spec == Init /\ [][Next]_vars

----------------------------------------------------------------------------
(* One accessor at a time, on an environment drawn from a larger set of     *)
(* texts.                                                                   *)

\* the environments in which VAR is unset or holds one of the texts T
EnvironsOver(T) == {NoEnviron} \cup {[n \in Names |-> t] : t \in T}

InitOver(T) ==
    /\ environ \in EnvironsOver(T)
    /\ gen = <<>>
    /\ genSrc = <<>>
    /\ call = NoCall
    /\ passed = <<>>
    /\ outcome = NoOutcome
    /\ applied = <<>>
    /\ joined = NoJoin
    /\ again = FALSE
    /\ earlier = NoEarlier
    /\ changed = FALSE

UpperChar(c) ==
    CASE c = "t" -> "T" [] c = "r" -> "R" [] c = "u" -> "U" [] c = "e" -> "E"
      [] c = "f" -> "F" [] c = "a" -> "A" [] c = "l" -> "L" [] c = "s" -> "S"
      [] c = "n" -> "N" [] c = "o" -> "O"
      [] OTHER -> c

\* every way to write the lower-case text t in upper and lower case
RECURSIVE Spellings(_)
Spellings(t) ==
    IF t = <<>> THEN {<<>>}
    ELSE {<<c>> \o r : c \in {Head(t), UpperChar(Head(t))},
                       r \in Spellings(Tail(t))}

BoolTexts ==
    Spellings(<<"t", "r", "u", "e">>) \cup Spellings(<<"f", "a", "l", "s", "e">>)
    \cup Spellings(<<"n", "o">>) \cup Spellings(<<"o", "n">>)
    \cup { <<"1">>, <<"0">>, <<>>, <<" ", "1">>, <<"1", " ">>, <<" ">>,
           <<"t", "r", "u", "e", " ">>, <<" ", "f", "a", "l", "s", "e">>,
           <<"t", "r", "u">>, <<"t", "r", "u", "e", "e">>, <<"t">>, <<"f">>,
           <<"1", "0">>, <<"0", "1">>, <<"1", "1">>, <<"0", "0">>,
           <<"n", "o", "p", "e">>, <<"y", "e", "s">>, <<"2">>,
           <<"-", "1">>, <<"1", ".", "0">> }

InitBool == InitOver(BoolTexts)
NextBool == \E n \in Names, d \in Defaults : CallBool(n, d)
SpecBool == InitBool /\ [][NextBool]_vars

NumAlphabet == {"0", "1", "-", ".", " ", "a"}
NumTexts ==
    SeqsUpTo(NumAlphabet, MaxLen)
    \cup {<<"t", "r", "u", "e">>, <<"T", "r", "u", "e">>, <<"n", "u", "l", "l">>}

InitNum == InitOver(NumTexts)
NextNum ==
    \/ \E n \in Names, d \in Defaults : CallInt(n, d)
    \/ \E n \in Names, d \in Defaults : CallFloat(n, d)
    \/ \E n \in Names, d \in Defaults : CallDecimal(n, d)
    \/ \E n \in Names, d \in Defaults : CallJson(n, d)
SpecNum == InitNum /\ [][NextNum]_vars

ListTexts == SeqsUpTo({"a", ",", "1"}, MaxLen)
ListDelimiters == SeqsUpTo({"a", ","}, 2)
ListDefaults == {notset, PyNone, PyInt(10)}

InitList == InitOver(ListTexts)
NextList ==
    \E n \in Names, d \in ListDefaults, dl \in ListDelimiters,
       p \in Parsers \cup {NoParser} : CallList(n, d, dl, p)
SpecList == InitList /\ [][NextList]_vars

\* the caller set VAR to d.join(elems)
Elements == {<<>>, <<"a">>, <<"1">>, <<"a", "1">>}
ElementSeqs == SeqsUpTo(Elements, MaxElems)

InitJoin ==
    /\ \E elems \in ElementSeqs, d \in ListDelimiters \ {<<>>} :
          /\ environ = [n \in Names |-> Join(elems, d)]
          /\ joined = Joined(elems, d)
    /\ gen = <<>>
    /\ genSrc = <<>>
    /\ call = NoCall
    /\ passed = <<>>
    /\ outcome = NoOutcome
    /\ applied = <<>>
    /\ again = FALSE
    /\ earlier = NoEarlier
    /\ changed = FALSE
NextJoin ==
    \E n \in Names, dl \in ListDelimiters : CallList(n, notset, dl, NoParser)
SpecJoin == InitJoin /\ [][NextJoin]_vars

\* most values in a choices argument, and the longest text it is asked for
MaxChoices == 2

ChoiceTexts == SeqsUpTo({"a", "1"}, MaxChoices)
ChoiceSeqs == SeqsUpTo({<<"a">>, <<"1">>}, MaxChoices)
ChoiceDefaults == {notset, PyInt(10)}
ChoiceParsers == {NoParser, "int"}
ChoiceKinds == {"list", "str", "iter"}

InitChoice == InitOver(ChoiceTexts)
NextChoice ==
    \/ \E s \in ChoiceSeqs : NewIter(s)
    \/ \E n \in Names, d \in ChoiceDefaults, k \in ChoiceKinds,
          s \in ChoiceSeqs, p \in ChoiceParsers :
             CallChoice(n, d, Choices(k, s), p)
SpecChoice == InitChoice /\ [][NextChoice]_vars

\* parse, list and choice with parsers that raise, KeyError among them
RaisingParsers == {"int", "keyerror", "getitem"}
RaisingDelimiters == ListDelimiters \ {<<>>}
RaisingChoices ==
    { Choices("list", <<<<"a">>, <<"1">>, <<"1", ",", "a">>>>),
      Choices("str", <<<<"a">>, <<",">>, <<"1">>>>) }

InitRaising == InitOver(ListTexts)
NextRaising ==
    \/ \E n \in Names, d \in ListDefaults, p \in RaisingParsers :
          CallParse(n, d, p)
    \/ \E n \in Names, d \in ListDefaults, dl \in RaisingDelimiters,
          p \in RaisingParsers : CallList(n, d, dl, p)
    \/ \E n \in Names, d \in ListDefaults, c \in RaisingChoices,
          p \in RaisingParsers : CallChoice(n, d, c, p)
SpecRaising == InitRaising /\ [][NextRaising]_vars

----------------------------------------------------------------------------
(* Properties *)

\* the latest call looked up a variable that is in the environment
IsPresent == call # NoCall /\ Present(environ, call.name)
\* the latest call looked up a variable that is not in the environment
IsAbsent == call # NoCall /\ ~Present(environ, call.name)
\* the raw text the latest call read
Raw == environ[call.name]

\* C1: parse on a present variable ends exactly as parser(raw text) ends,
\* whatever the default is, and the parser was applied to the raw text once.
C1_ParsePresent ==
    (call.fn = "parse" /\ IsPresent) =>
        /\ outcome = Call(call.parser, Raw)
        /\ applied = <<Raw>>

\* parse returned a converted value that differs from the supplied default
C1_Witness ==
    /\ call.fn = "parse" /\ IsPresent
    /\ call.default = PyInt(10)
    /\ outcome = Return(PyInt(1))

\* C2: on an absent variable every accessor returns a supplied default as it
\* is, raises KeyError without one, and applies no conversion.
C2_AbsentDefault ==
    IsAbsent =>
        /\ applied = <<>>
        /\ call.default \in Supplied => outcome = Return(call.default)
        /\ call.default = notset => outcome = Raise("KeyError")

\* choice returned a default that is not one of the choices
C2_Witness ==
    /\ call.fn = "choice" /\ IsAbsent
    /\ call.choices = Choices("list", <<<<"a">>, <<"1">>>>)
    /\ call.parser = "int"
    /\ outcome = Return(PyInt(10))

\* C3: a supplied default, the falsy ones included, is never taken for the
\* not-supplied sentinel: on an absent variable the call returns it and does
\* not raise KeyError, and KeyError there means no default was passed.
C3_SentinelDistinct ==
    IsAbsent =>
        /\ ~IsNotSet(call.default) =>
              outcome.kind = "return" /\ outcome.val = call.default
        /\ outcome.kind = "KeyError" => call.default = notset

\* bool returned the supplied default False for an absent variable
C3_Witness ==
    /\ call.fn = "bool" /\ IsAbsent
    /\ call.default = PyBool(FALSE)
    /\ outcome = Return(PyBool(FALSE))

\* C4: bool on a present variable returns True exactly when the lower-cased
\* text is "true" or "1", False exactly when it is "false" or "0", and raises
\* ValueError for every other text, whatever the default is.
C4_BoolLiterals ==
    (call.fn = "bool" /\ IsPresent) =>
        LET low == Lower(Raw)
            isTrue == low \in {<<"t", "r", "u", "e">>, <<"1">>}
            isFalse == low \in {<<"f", "a", "l", "s", "e">>, <<"0">>}
        IN  /\ isTrue <=> outcome = Return(PyBool(TRUE))
            /\ isFalse <=> outcome = Return(PyBool(FALSE))
            /\ ~(isTrue \/ isFalse) <=> outcome.kind = "ValueError"
            /\ Raw = <<"T", "r", "u", "e">> => outcome = Return(PyBool(TRUE))
            /\ Raw = <<"F", "a", "l", "s", "e">> =>
                  outcome = Return(PyBool(FALSE))
            /\ Raw \in {<<>>, <<" ", "1">>, <<"1", " ">>} =>
                  outcome.kind = "ValueError"

\* bool read "fALSE" as False although the default was None
C4_Witness ==
    /\ call.fn = "bool" /\ IsPresent
    /\ Raw = <<"f", "A", "L", "S", "E">>
    /\ call.default = PyNone
    /\ outcome = Return(PyBool(FALSE))

\* the conversion of each typed accessor
Conversion(fn, t) ==
    CASE fn = "int" -> PyIntOf(t)
      [] fn = "float" -> PyFloatOf(t)
      [] fn = "decimal" -> PyDecimalOf(t)
      [] fn = "json" -> PyJsonOf(t)

\* the failures of those conversions
Malformed == {"ValueError", "InvalidOperation", "JSONDecodeError"}

\* C9: int, float, decimal and json on a present variable end as their
\* conversion of the raw text ends: with the value of a valid literal, and
\* with the conversion's own error for any other text, default or not.
C9_MalformedRaised ==
    (call.fn \in {"int", "float", "decimal", "json"} /\ IsPresent) =>
        /\ outcome = Conversion(call.fn, Raw)
        /\ outcome.kind \in {"return"} \cup Malformed
        /\ outcome.kind = "return" =>
              outcome.val.tag \in {"int", "float", "Decimal", "bool", "None"}
        /\ (call.fn = "int" /\ ~IntValid(Raw)) => outcome.kind = "ValueError"
        /\ (call.fn = "float" /\ ~PointValid(Raw)) =>
              outcome.kind = "ValueError"
        /\ (call.fn = "decimal" /\ ~PointValid(Raw)) =>
              outcome.kind = "InvalidOperation"
        /\ Raw = <<"a">> => outcome.kind \in Malformed
        /\ (Raw = <<"-", "1", "0">> /\ call.fn \in {"int", "json"}) =>
              outcome = Return(PyInt(0 - 10))

\* int raised ValueError on "1." although the default 10 was supplied
C9_Witness ==
    /\ call.fn = "int" /\ IsPresent
    /\ Raw = <<"1", ".">>
    /\ call.default = PyInt(10)
    /\ outcome = Raise("ValueError")

\* the list of str objects for a sequence of texts
StrList(ts) == PyList([i \in 1..Len(ts) |-> PyStr(ts[i])])
\* the texts of a list of str objects
TextsOf(v) == [i \in 1..Len(v.items) |-> v.items[i].txt]

\* R is raw cut at every occurrence of d found from left to right: the
\* pieces joined with d give raw back, d occurs in no piece followed by d
\* before that final d, and d does not occur in the last piece
IsSplitOf(R, raw, d) ==
    /\ Len(R) >= 1
    /\ Join(R, d) = raw
    /\ \A i \in 1..(Len(R) - 1) :
          \A j \in 1..Len(R[i]) : ~StartsAt(R[i] \o d, j, d)
    /\ ~IsSubstring(d, R[Len(R)])

\* the number of occurrences of d in t counted from left to right without
\* overlap
RECURSIVE Occurrences(_, _)
Occurrences(t, d) ==
    IF ~IsSubstring(d, t) THEN 0
    ELSE LET i == CHOOSE k \in 1..Len(t) :
                     StartsAt(t, k, d) /\ \A j \in 1..(k - 1) : ~StartsAt(t, j, d)
         IN  1 + Occurrences(SubSeq(t, i + Len(d), Len(t)), d)

\* what list returns for the pieces R: the pieces, or the parser's results
ListOf(R, parser) ==
    IF parser = NoParser THEN StrList(R)
    ELSE PyList([i \in 1..Len(R) |-> Call(parser, R[i]).val])

\* C7 as stated: list on a present variable returns, for every delimiter,
\* the pieces between the occurrences of the delimiter, the empty ones kept,
\* k occurrences giving k + 1 pieces, each converted by the parser, in order.
C7_ListSplitsAnyDelimiter ==
    (call.fn = "list" /\ IsPresent /\ call.parser = NoParser) =>
        /\ outcome.kind = "return"
        /\ IsSplitOf(TextsOf(outcome.val), Raw, call.delimiter)

\* C7 amended: that holds for a non-empty delimiter; with an empty delimiter
\* the call on a present variable raises ValueError.
C7_ListSplits ==
    (call.fn = "list" /\ IsPresent) =>
        IF call.delimiter = <<>>
        THEN outcome = Raise("ValueError") /\ applied = <<>>
        ELSE LET R == Split(Raw, call.delimiter)
                 accepted == \A i \in 1..Len(R) :
                                call.parser = NoParser
                                \/ Call(call.parser, R[i]).kind = "return"
             IN  /\ IsSplitOf(R, Raw, call.delimiter)
                 /\ Len(R) = Occurrences(Raw, call.delimiter) + 1
                 /\ accepted => outcome = Return(ListOf(R, call.parser))
                 /\ ~accepted => outcome.kind = "ValueError"
                 /\ Raw = <<>> => Len(R) = 1 /\ R[1] = <<>>

\* list cut "a,," on "," into "a" and two empty texts and took their lengths
C7_Witness ==
    /\ call.fn = "list" /\ IsPresent
    /\ Raw = <<"a", ",", ",">>
    /\ call.delimiter = <<",">>
    /\ call.parser = "len"
    /\ outcome = Return(PyList(<<PyInt(1), PyInt(0), PyInt(0)>>))

\* the delimiter the caller joined with occurs inside none of the elements
NotInElements ==
    \A i \in 1..Len(joined.elems) : ~IsSubstring(joined.d, joined.elems[i])

\* list was called without a parser and with the delimiter of the join
ReadBack ==
    /\ call.fn = "list" /\ IsPresent /\ call.parser = NoParser
    /\ joined.made /\ call.delimiter = joined.d

\* C8 as stated: for any elements and any delimiter that does not occur
\* inside an element, list gives back the elements that were joined.
C8_RoundTripAny ==
    (ReadBack /\ NotInElements) => outcome = Return(StrList(joined.elems))

\* the delimiter does not begin inside an element and end in the delimiter
\* that follows it
NotAcrossJoins ==
    \A i \in 1..(Len(joined.elems) - 1) :
        \A j \in 1..Len(joined.elems[i]) :
            ~StartsAt(joined.elems[i] \o joined.d, j, joined.d)

\* C8 amended: for at least one element and a delimiter that occurs neither
\* inside an element nor across the end of an element and the delimiter
\* after it, list gives back the elements that were joined.
C8_RoundTrip ==
    (ReadBack /\ NotInElements /\ NotAcrossJoins /\ joined.elems # <<>>) =>
        outcome = Return(StrList(joined.elems))

\* list gave back "a", "" and "1" from their join with ",a"
C8_Witness ==
    /\ ReadBack /\ NotInElements /\ NotAcrossJoins
    /\ joined.elems = <<<<"a">>, <<>>, <<"1">>>>
    /\ joined.d = <<",", "a">>
    /\ outcome = Return(StrList(joined.elems))

\* what choice does with a raw text that is one of the choices
Chosen(parser, raw) ==
    IF parser = NoParser THEN Return(PyStr(raw)) ELSE Call(parser, raw)

\* C5: choice on a present variable accepts the raw text exactly when it is
\* equal to one of the texts that choices holds, whatever collection choices
\* is: it then ends as parser(raw text) ends, the raw text itself without a
\* parser, and otherwise raises ValueError without applying the parser.
C5_ExactMembership ==
    (call.fn = "choice" /\ IsPresent) =>
        IF Contains(passed, Raw)
        THEN outcome = Chosen(call.parser, Raw)
        ELSE /\ outcome.kind = "ValueError"
             /\ outcome.msg.value = Raw
             /\ applied = <<>>

\* choice raised its own ValueError: the parser was not applied
InvalidChoice ==
    /\ call.fn = "choice" /\ IsPresent
    /\ outcome.kind = "ValueError"
    /\ applied = <<>>

\* C6: the message of the invalid-choice error holds the raw value and all
\* the choices the caller passed, in their iteration order, whatever iterable
\* choices is.
C6_MessageListsChoices ==
    InvalidChoice =>
        /\ outcome.msg.value = Raw
        /\ outcome.msg.expected = passed

\* C10 as stated: a call with the arguments of the call before it, nothing
\* having happened in between, ends as that call ended.
C10_IdempotentAny ==
    [][(call # NoCall /\ call' = call) => outcome' = outcome]_vars

\* C10 amended: that holds unless choices is a one-shot iterator, which the
\* first call consumes; the repeated call then also leaves the environment
\* and the iterator as they were.
C10_Idempotent ==
    [][(call # NoCall /\ call' = call /\ call.choices.kind # "iter") =>
          /\ outcome' = outcome
          /\ applied' = applied
          /\ environ' = environ
          /\ gen' = gen]_vars

\* list was called a second time with the same arguments and returned again
C10_Witness ==
    /\ again
    /\ call.fn = "list" /\ IsPresent
    /\ call.parser = "int"
    /\ Raw = <<"1", ",", "0">>
    /\ outcome = Return(PyList(<<PyInt(1), PyInt(0)>>))

\* how a call with arguments c ends on the environment env; it is what the
\* choices argument yields when the call begins
Determined(c, env, it) ==
    CASE c.fn = "parse" -> EnvParse(env, c.name, c.default, c.parser).out
      [] c.fn = "str" -> EnvStr(env, c.name, c.default).out
      [] c.fn = "int" -> EnvInt(env, c.name, c.default).out
      [] c.fn = "float" -> EnvFloat(env, c.name, c.default).out
      [] c.fn = "decimal" -> EnvDecimal(env, c.name, c.default).out
      [] c.fn = "json" -> EnvJson(env, c.name, c.default).out
      [] c.fn = "bool" -> EnvBool(env, c.name, c.default).out
      [] c.fn = "list" ->
            EnvList(env, c.name, c.default, c.delimiter, c.parser).out
      [] c.fn = "choice" ->
            EnvChoice(env, c.name, c.default, c.choices, c.parser, it).out

\* a call that found another environment than the call before it did: the
\* variable was set, changed or removed in between
AfterChange == call # NoCall /\ changed

\* C11: every call ends as its arguments and the content of the environment
\* at the moment of the call determine, whatever the calls before it found:
\* str after a change returns the text the variable holds now, and a call
\* after the variable was removed returns the default or raises KeyError.
C11_ReadsFresh ==
    call # NoCall =>
        /\ outcome = Determined(call, environ, passed)
        /\ (call.fn = "str" /\ IsPresent) => outcome = Return(PyStr(Raw))
        /\ IsAbsent => outcome = Missing(call.default)

\* int returned the number the variable holds now, after the call before it
\* found the variable absent or with another text
C11_Witness ==
    /\ AfterChange
    /\ call.fn = "int" /\ IsPresent
    /\ Raw = <<"1">>
    /\ outcome = Return(PyInt(1))

\* the conversion each typed accessor stands for
Builtin(fn) ==
    CASE fn = "str" -> "str"
      [] fn = "int" -> "int"
      [] fn = "float" -> "float"
      [] fn = "decimal" -> "Decimal"
      [] fn = "json" -> "json.loads"

Typed == {"str", "int", "float", "decimal", "json"}

\* the conversions of list without a parser, bool and choice, as functions of
\* the raw text: split on the delimiter, and validate first
SplitOn(delimiter, t) == PySplit(t, delimiter)
ValidBool(t) ==
    IF ~Contains(allowed, Lower(t))
    THEN RaiseMsg("ValueError", Lower(t), truthy \o falsy)
    ELSE Return(PyBool(Contains(truthy, Lower(t))))
ValidChoice(choices, parser, it, t) ==
    IF ~IsMember(t, choices, it)
    THEN RaiseMsg("ValueError", t, TupleOf(t, choices, it))
    ELSE Chosen(parser, t)

\* the parse contract with the conversion that ends as res on the raw text:
\* the default or KeyError for an absent variable, the conversion otherwise
ParseContract(c, env, it) ==
    IF ~Present(env, c.name) THEN Missing(c.default)
    ELSE CASE c.fn \in Typed -> Call(Builtin(c.fn), env[c.name])
           [] c.fn = "list" -> SplitOn(c.delimiter, env[c.name])
           [] c.fn = "bool" -> ValidBool(env[c.name])
           [] c.fn = "choice" ->
                 ValidChoice(c.choices, c.parser, it, env[c.name])

\* C12: every typed accessor ends as parse ends with its conversion: str with
\* the identity, int, float, decimal and json with int, float, Decimal and
\* json.loads, list without a parser with the split on the delimiter, bool
\* and choice with a conversion that validates first; the same return value
\* or the same error, for a present and for an absent variable.
C12_Specialises ==
    /\ (call.fn \in Typed) =>
          outcome =
              EnvParse(environ, call.name, call.default, Builtin(call.fn)).out
    /\ (call.fn \in Typed \cup {"bool", "choice"}
          \/ (call.fn = "list" /\ call.parser = NoParser)) =>
          outcome = ParseContract(call, environ, passed)

\* decimal returned the Decimal that parse returns with parser=Decimal
C12_Witness ==
    /\ call.fn = "decimal" /\ IsPresent
    /\ Raw = <<"1", ".">>
    /\ outcome.kind = "return"
    /\ outcome.val.tag = "Decimal"
    /\ outcome = EnvParse(environ, call.name, call.default, "Decimal").out

\* the texts the caller's parser is applied to, in order, when nothing stops
\* the call: the raw text in parse and in choice, the pieces in list
Handed ==
    CASE call.fn = "list" -> Split(Raw, call.delimiter)
      [] OTHER -> <<Raw>>

\* the call reaches the caller's parser
ReachesParser ==
    /\ call.fn \in {"parse", "list", "choice"}
    /\ IsPresent
    /\ call.parser # NoParser
    /\ call.fn = "list" => call.delimiter # <<>>
    /\ call.fn = "choice" => IsMember(Raw, call.choices, passed)

\* parser raises on the f-th text handed to it and on none before it
FailsFirstAt(f) ==
    /\ Call(call.parser, Handed[f]).kind # "return"
    /\ \A j \in 1..(f - 1) : Call(call.parser, Handed[j]).kind = "return"

\* C13: when the caller's parser raises in parse, list or choice on a present
\* variable, the caller gets that exception as the parser raised it, also
\* when it is a KeyError and a default was supplied; list ends with the
\* exception of the first piece the parser fails on, having applied the
\* parser to no piece after it, and returns no list.
C13_ParserErrorPropagates ==
    ReachesParser =>
        \A f \in 1..Len(Handed) :
            FailsFirstAt(f) =>
                /\ outcome = Call(call.parser, Handed[f])
                /\ outcome.kind # "return"
                /\ applied = SubSeq(Handed, 1, f)

\* list with a default met KeyError('a') from its parser on the first of
\* three pieces, all of which the parser fails on, and raised it
C13_Witness ==
    /\ ReachesParser
    /\ call.fn = "list" /\ call.parser = "getitem"
    /\ call.default = PyInt(10)
    /\ call.delimiter = <<",">>
    /\ Raw = <<"a", ",", ",">>
    /\ outcome = RaiseMsg("KeyError", <<"a">>, <<>>)
    /\ applied = << <<"a">> >>

====
